---------------------------- MODULE Spec2Model ----------------------------
(***************************************************************************)
(* Habit tracker: recurrence rule, instance timeline (backfill),           *)
(* completion state machine and streak engine.                             *)
(*                                                                         *)
(* Calendar dates are integers (day numbers); day 0 is a Monday, so        *)
(* date.weekday() is d % 7 with Monday = 0 ... Sunday = 6.                 *)
(* Python's None is the value None (-1), which is no date, no weekday, no  *)
(* identifier and no timestamp of the model.                               *)
(* uuid4() is a fresh identifier drawn from the counter nextId;            *)
(* datetime.now() is a strictly increasing logical clock.                  *)
(***************************************************************************)
EXTENDS Integers, Sequences, FiniteSets, TLC

\* ----------------------------------------------------------------- bounds
\* Spec (every operation of database.py and cli.add_habit):
\* the last calendar day "today" reaches, the identifiers uuid4() hands out
\* (habits and instances together) and the timestamps datetime.now() hands
\* out to mark_completed
MaxDay == 1
MaxId == 4
MaxClock == 2
\* SpecTimeline and SpecThreeDays (timelines built by add-habit, backfill
\* and complete only): the same three bounds, over more than a week
TimelineMaxDay == 8
TimelineMaxId == 7
TimelineMaxClock == 4
\* SpecRecurrence (the recurrence rule applied to every date and weekday):
\* the last date the rule is applied to
RecurrenceMaxDay == 13
\* SpecRace (two programs on one store): the identifiers and timestamps of
\* one habit, its first instance and one more row, one completion
RaceMaxId == 3
RaceMaxClock == 1
\* SpecPair (two habits side by side): two habits, their first instances
\* and two more rows
PairMaxDay == 1
PairMaxId == 6
PairMaxClock == 2

\* ------------------------------------------------------ program constants
None == -1
DaysPerWeek == 7
\* the oldest instance the streak test saves starts at today - 3
MaxBack == 3

\* ----------------------------------------------------------------- inputs
Names == {"a", "b"}
InputWeekdays == {None, 0, 2}
Kinds == {<<"daily", None>>} \cup {<<"weekly", w>> : w \in InputWeekdays}

VARIABLES
    today,      \* date.today()
    habits,     \* rows of table habits
    instances,  \* rows of table habit_instances
    nextId,     \* next value of uuid4()
    clock,      \* next value of datetime.now()
    result,     \* outcome of the call the caller has not taken yet:
                \* operation, status (ok or the exception), returned value
    pc          \* position in the three-day script of SpecThreeDays and the
                \* habit it is about; step 0 when no script runs

vars == <<today, habits, instances, nextId, clock, result, pc>>
store == <<habits, instances>>

\* ------------------------------------------------------ recurrence rule
\* date.weekday()
Weekday(d) == d % DaysPerWeek

\* WeeklyHabit: weekday = 0 if self.weekday is None else self.weekday
RuleWeekday(h) == IF h.weekday = None THEN 0 ELSE h.weekday

\* WeeklyHabit.first_period_start advancing a full week from a matching day
FirstPeriodStart_NeverToday(h, after) ==
    LET current == Weekday(after)
        weekday == RuleWeekday(h)
        days_ahead == IF weekday # current
                      THEN (weekday - current + DaysPerWeek) % DaysPerWeek
                      ELSE DaysPerWeek
    IN  after + days_ahead

\* WeeklyHabit.first_period_start with the difference taken the other way
FirstPeriodStart_Reversed(h, after) ==
    LET current == Weekday(after)
        weekday == RuleWeekday(h)
        days_ahead == IF weekday # current
                      THEN (current - weekday + DaysPerWeek) % DaysPerWeek
                      ELSE 0
    IN  after + days_ahead

\* WeeklyHabit.first_period_start (DailyHabit defines no such method)
FirstPeriodStart(h, after) ==
    LET current == Weekday(after)
        weekday == RuleWeekday(h)
        days_ahead == IF weekday # current
                      THEN (weekday - current + DaysPerWeek) % DaysPerWeek
                      ELSE 0
    IN  after + days_ahead

\* WeeklyHabit.next_period_start staying on a matching day
WeeklyNextPeriodStart_SameDay(h, after) ==
    LET current == Weekday(after)
        weekday == RuleWeekday(h)
        days_ahead == IF weekday # current
                      THEN (weekday - current + DaysPerWeek) % DaysPerWeek
                      ELSE 0
    IN  after + days_ahead

\* WeeklyHabit.next_period_start
WeeklyNextPeriodStart(h, after) ==
    LET current == Weekday(after)
        weekday == RuleWeekday(h)
        days_ahead == IF weekday # current
                      THEN (weekday - current + DaysPerWeek) % DaysPerWeek
                      ELSE DaysPerWeek
    IN  after + days_ahead

\* DailyHabit.next_period_start leaving out every other day
DailyNextPeriodStart_SkipsADay(after) == after + 2

\* DailyHabit.next_period_start
DailyNextPeriodStart(after) == after + 1

\* habit.next_period_start(after), dispatched on the habit's class
NextPeriodStart(h, after) ==
    IF h.type = "daily" THEN DailyNextPeriodStart(after)
    ELSE WeeklyNextPeriodStart(h, after)

\* prev_period_start going back a week for every habit
PrevPeriodStart_AlwaysWeek(h, d) == d - DaysPerWeek

\* database.prev_period_start
PrevPeriodStart(h, d) ==
    IF h.type = "daily" THEN d - 1 ELSE d - DaysPerWeek

\* the due_date expression adding six days whatever day the period starts
DueDate_SixDaysOn(h, period_start) ==
    IF h.type = "daily" \/ (h.type = "weekly" /\ h.weekday # None)
    THEN period_start
    ELSE period_start + 6

\* the due_date expression of HabitInstance.__init__
DueDate(h, period_start) ==
    IF h.type = "daily" \/ (h.type = "weekly" /\ h.weekday # None)
    THEN period_start
    ELSE IF h.type = "weekly"
         THEN period_start + (6 - Weekday(period_start))
         ELSE None

\* HabitInstance(habit, period_start) with the identifier uuid4() returned
NewInstance(id, h, period_start) ==
    [id           |-> id,
     habit_id     |-> h.id,
     period_start |-> period_start,
     due_date     |-> DueDate(h, period_start),
     completed_at |-> None]

\* DailyHabit(name, ...) / WeeklyHabit(name, ..., weekday)
NewHabit(id, name, type, weekday) ==
    [id      |-> id,
     name    |-> name,
     type    |-> type,
     weekday |-> IF type = "weekly" THEN weekday ELSE None]

\* HabitInstance.is_completed
IsCompleted(i) == i.completed_at # None

\* --------------------------------------------------------------- queries
HabitsNamed(H, name) == {h \in H : h.name = name}
InstancesOf(S, habit_id) == {i \in S : i.habit_id = habit_id}

\* the lookup by date without the filter on habit_id
InstancesAt_AnyHabit(S, habit_id, d) == {i \in S : i.period_start = d}

InstancesAt(S, habit_id, d) ==
    {i \in S : i.habit_id = habit_id /\ i.period_start = d}

\* ORDER BY period_start DESC over a set of rows
RECURSIVE SortDesc(_)
SortDesc(S) ==
    IF S = {} THEN <<>>
    ELSE LET m == CHOOSE i \in S : \A j \in S : j.period_start <= i.period_start
         IN  <<m>> \o SortDesc(S \ {m})

\* the for loop of current_streak_for_habit over instances_to_check
RECURSIVE Walk(_, _, _, _)
Walk(h, seq, expected_date, streak) ==
    IF seq = <<>> THEN streak
    ELSE IF IsCompleted(Head(seq)) /\ Head(seq).period_start = expected_date
         THEN Walk(h, Tail(seq), PrevPeriodStart(h, expected_date), streak + 1)
         ELSE streak

\* current_streak_for_habit that walks from the first row, an open instance
\* at today included
CurrentStreakIn_NoSkip(S, h, t) ==
    LET rows == SortDesc({i \in InstancesOf(S, h.id) : i.period_start <= t})
    IN  IF rows = <<>> THEN 0
        ELSE Walk(h, rows, rows[1].period_start, 0)

\* current_streak_for_habit counting every row up to today, done or not
CurrentStreakIn_CountRows(S, h, t) ==
    Cardinality({i \in InstancesOf(S, h.id) : i.period_start <= t})

\* current_streak_for_habit(habit, today) over the stored rows S
CurrentStreakIn(S, h, t) ==
    LET rows == SortDesc({i \in InstancesOf(S, h.id) : i.period_start <= t})
    IN  IF rows = <<>> THEN 0
        ELSE LET instances_to_check ==
                     IF rows[1].period_start = t /\ ~IsCompleted(rows[1])
                     THEN Tail(rows)
                     ELSE rows
             IN  IF instances_to_check = <<>> THEN 0
                 ELSE Walk(h, instances_to_check,
                           instances_to_check[1].period_start, 0)

CurrentStreak(h) == CurrentStreakIn(instances, h, today)

\* ------------------------------------------------------------ the result
Outcome(op, status, value) == [op |-> op, status |-> status, value |-> value]

Init ==
    /\ today = 0
    /\ habits = {}
    /\ instances = {}
    /\ nextId = 1
    /\ clock = 1
    /\ result = Outcome("none", "idle", None)
    /\ pc = [step |-> 0, name |-> ""]

\* the calendar moves on between two calls
AdvanceDay(last_day) ==
    /\ today < last_day
    /\ today' = today + 1
    /\ UNCHANGED <<habits, instances, nextId, clock, result>>

\* the UniqueConstraint("habit_id", "period_start") of table habit_instances
KeyFree(S, row) == InstancesAt(S, row.habit_id, row.period_start) = {}

\* save_habit that stores the new habit in place of the one of that name
SaveHabitIn_Overwrites(H, idc, name, type, weekday) ==
    [rows |-> (H \ HabitsNamed(H, name)) \cup {NewHabit(idc, name, type, weekday)},
     idc |-> idc + 1, status |-> "ok", value |-> idc]

\* save_habit as a function of the table: the rows after the call, the next
\* identifier, the status and the returned id
SaveHabitIn(H, idc, name, type, weekday) ==
    IF HabitsNamed(H, name) # {}
    THEN [rows |-> H, idc |-> idc, status |-> "DuplicateName", value |-> None]
    ELSE [rows |-> H \cup {NewHabit(idc, name, type, weekday)},
          idc |-> idc + 1, status |-> "ok", value |-> idc]

\* save_instance that inserts without looking the key up
SaveInstanceIn_NoLookup(S, idc, h, period_start) ==
    [rows |-> S \cup {NewInstance(idc, h, period_start)},
     idc |-> idc + 1, status |-> "ok", value |-> idc]

\* save_instance that replaces the row stored under the key
SaveInstanceIn_Replace(S, idc, h, period_start) ==
    [rows |-> (S \ InstancesAt(S, h.id, period_start))
                  \cup {NewInstance(idc, h, period_start)},
     idc |-> idc + 1, status |-> "ok", value |-> idc]

\* save_instance as a function of the table: look the key up, insert only
\* when it is absent, return the stored row's id
SaveInstanceIn(S, idc, h, period_start) ==
    LET existing == InstancesAt(S, h.id, period_start)
    IN  IF existing # {}
        THEN [rows |-> S, idc |-> idc, status |-> "ok",
              value |-> (CHOOSE i \in existing : TRUE).id]
        ELSE [rows |-> S \cup {NewInstance(idc, h, period_start)},
              idc |-> idc + 1, status |-> "ok", value |-> idc]

\* database.save_habit(habit)
SaveHabit(name, type, weekday) ==
    LET r == SaveHabitIn(habits, nextId, name, type, weekday)
    IN  /\ habits' = r.rows
        /\ nextId' = r.idc
        /\ result' = Outcome("save_habit", r.status, r.value)
        /\ UNCHANGED <<today, instances, clock>>

\* database.save_instance(HabitInstance(habit, period_start))
SaveInstance(h, period_start) ==
    LET r == SaveInstanceIn(instances, nextId, h, period_start)
    IN  /\ instances' = r.rows
        /\ nextId' = r.idc
        /\ result' = Outcome("save_instance", r.status, r.value)
        /\ UNCHANGED <<today, habits, clock>>

\* cli.add_habit(name, start_date, period_type, weekday); the ValueError of
\* save_habit is not caught, so nothing after it runs
AddHabit(name, start_date, period_type, weekday) ==
    LET saved == SaveHabitIn(habits, nextId, name, period_type, weekday)
        habit == NewHabit(nextId, name, period_type, weekday)
        first == IF weekday # None /\ period_type = "weekly"
                 THEN FirstPeriodStart(habit, start_date)
                 ELSE start_date
        r     == SaveInstanceIn(instances, saved.idc, habit, first)
    IN  IF saved.status # "ok"
        THEN /\ result' = Outcome("add_habit", saved.status, None)
             /\ UNCHANGED <<today, habits, instances, nextId, clock>>
        ELSE /\ habits' = saved.rows
             /\ instances' = r.rows
             /\ nextId' = r.idc
             /\ result' = Outcome("add_habit", "ok", None)
             /\ UNCHANGED <<today, clock>>

\* HabitInstance.mark_completed() with datetime.now() = now
MarkCompleted(i, now) == [i EXCEPT !.completed_at = now]

\* complete_task that marks the instance and creates no successor
CompleteInstance_NoSuccessor(habit, instance, S, idc, now) ==
    [rows |-> (S \ {instance}) \cup {MarkCompleted(instance, now)},
     idc |-> idc, now |-> now + 1, status |-> "ok"]

\* the else branch of complete_task: mark the Pending instance, commit, then
\* look the next period's instance up and save a new one when there is none
CompleteInstance(habit, instance, S, idc, now) ==
    LET marked == (S \ {instance}) \cup {MarkCompleted(instance, now)}
        lookup_date == NextPeriodStart(habit, instance.period_start)
        r == IF InstancesAt(marked, habit.id, lookup_date) = {}
             THEN SaveInstanceIn(marked, idc, habit, lookup_date)
             ELSE [rows |-> marked, idc |-> idc]
    IN  [rows |-> r.rows, idc |-> r.idc, now |-> now + 1, status |-> "ok"]

\* complete_task without the is_completed() check
CompleteTaskIn_NoCompletedCheck(H, S, idc, now, name, date) ==
    LET hs == HabitsNamed(H, name)
    IN  IF hs = {}
        THEN [rows |-> S, idc |-> idc, now |-> now, status |-> "NoHabit"]
        ELSE
        LET habit == CHOOSE h \in hs : TRUE
            found == InstancesAt(S, habit.id, date)
        IN  IF found = {}
            THEN [rows |-> S, idc |-> idc, now |-> now, status |-> "NoInstance"]
            ELSE CompleteInstance(habit, CHOOSE i \in found : TRUE, S, idc, now)

\* complete_task that creates the instance it does not find
CompleteTaskIn_CreatesMissing(H, S, idc, now, name, date) ==
    LET hs == HabitsNamed(H, name)
    IN  IF hs = {}
        THEN [rows |-> S, idc |-> idc, now |-> now, status |-> "NoHabit"]
        ELSE
        LET habit == CHOOSE h \in hs : TRUE
            found == InstancesAt(S, habit.id, date)
        IN  IF found = {}
            THEN [rows |-> S \cup {NewInstance(idc, habit, date)},
                  idc |-> idc + 1, now |-> now, status |-> "NoInstance"]
            ELSE
            LET instance == CHOOSE i \in found : TRUE
            IN  IF IsCompleted(instance)
                THEN [rows |-> S, idc |-> idc, now |-> now,
                      status |-> "AlreadyCompleted"]
                ELSE CompleteInstance(habit, instance, S, idc, now)

\* database.complete_task(name, date) as a function of the tables: the
\* rows after the call, the next identifier, the clock and the outcome
\* ("NoHabit", "NoInstance" and "AlreadyCompleted" are the three ValueErrors)
CompleteTaskIn(H, S, idc, now, name, date) ==
    LET hs == HabitsNamed(H, name)
    IN  IF hs = {}
        THEN [rows |-> S, idc |-> idc, now |-> now, status |-> "NoHabit"]
        ELSE
        LET habit == CHOOSE h \in hs : TRUE
            found == InstancesAt(S, habit.id, date)
        IN  IF found = {}
            THEN [rows |-> S, idc |-> idc, now |-> now, status |-> "NoInstance"]
            ELSE
            LET instance == CHOOSE i \in found : TRUE
            IN  IF IsCompleted(instance)
                THEN [rows |-> S, idc |-> idc, now |-> now,
                      status |-> "AlreadyCompleted"]
                ELSE CompleteInstance(habit, instance, S, idc, now)

\* database.complete_task(name, date)
CompleteTask(name, date) ==
    LET r == CompleteTaskIn(habits, instances, nextId, clock, name, date)
    IN  /\ instances' = r.rows
        /\ nextId' = r.idc
        /\ clock' = r.now
        /\ result' = Outcome("complete_task", r.status, None)
        /\ UNCHANGED <<today, habits>>

\* where a storage failure may strike complete_task: nowhere, at a lookup
\* before anything is written, at the commit of mark_completed, at the
\* lookup of the successor, inside save_instance of the successor
CompleteFailPoints ==
    {"none", "lookup", "commit", "successor_lookup", "save_instance"}

\* complete_task(name, date) with a storage failure at fail.  The checks
\* that raise ValueError come first; mark_completed is committed by its own
\* session.commit() (database.py:126) before the successor is looked up,
\* and save_instance opens a session of its own: a failure before or at
\* the first commit leaves the tables as they were, a failure after it
\* leaves the instance marked and no successor stored.
CompleteTaskTx(H, S, idc, now, name, date, fail) ==
    LET r == CompleteTaskIn(H, S, idc, now, name, date)
        untouched == [rows |-> S, idc |-> idc, now |-> now,
                      status |-> "StorageError"]
    IN  IF fail = "none" THEN r
        ELSE IF fail = "lookup" THEN untouched
        ELSE IF r.status # "ok" THEN r
        ELSE IF fail = "commit" THEN untouched
        ELSE
        LET habit    == CHOOSE h \in HabitsNamed(H, name) : TRUE
            instance == CHOOSE i \in InstancesAt(S, habit.id, date) : TRUE
            marked   == (S \ {instance}) \cup {MarkCompleted(instance, now)}
            absent   == InstancesAt(marked, habit.id,
                            NextPeriodStart(habit, instance.period_start)) = {}
        IN  IF fail = "save_instance" /\ ~absent THEN r
            ELSE [rows |-> marked, idc |-> idc, now |-> now + 1,
                  status |-> "StorageError"]

\* database.complete_task(name, date) on a store that may fail
CompleteTaskFailing(name, date, fail) ==
    LET r == CompleteTaskTx(habits, instances, nextId, clock, name, date, fail)
    IN  /\ instances' = r.rows
        /\ nextId' = r.idc
        /\ clock' = r.now
        /\ result' = Outcome("complete_task", r.status, None)
        /\ UNCHANGED <<today, habits>>

\* the while loop of backfill_instances adding one period at most
FillFrom_OneStep(h, last, S, idc, t) ==
    IF last < t
    THEN [rows |-> S \cup {NewInstance(idc, h, NextPeriodStart(h, last))},
          idc |-> idc + 1, status |-> "ok"]
    ELSE [rows |-> S, idc |-> idc, status |-> "ok"]

\* the while loop of backfill_instances running while last <= today
RECURSIVE FillFrom_OnePastToday(_, _, _, _, _)
FillFrom_OnePastToday(h, last, S, idc, t) ==
    IF last <= t
    THEN LET nxt  == NextPeriodStart(h, last)
             inst == NewInstance(idc, h, nxt)
         IN  IF KeyFree(S, inst)
             THEN FillFrom_OnePastToday(h, nxt, S \cup {inst}, idc + 1, t)
             ELSE [rows |-> S, idc |-> idc, status |-> "IntegrityError"]
    ELSE [rows |-> S, idc |-> idc, status |-> "ok"]

\* the loop of backfill_instances as do-while: it adds the next period
\* before it looks at today
RECURSIVE FillFrom_DoWhile(_, _, _, _, _)
FillFrom_DoWhile(h, last, S, idc, t) ==
    LET nxt  == NextPeriodStart(h, last)
        inst == NewInstance(idc, h, nxt)
    IN  IF ~KeyFree(S, inst)
        THEN [rows |-> S, idc |-> idc, status |-> "IntegrityError"]
        ELSE IF nxt < t
             THEN FillFrom_DoWhile(h, nxt, S \cup {inst}, idc + 1, t)
             ELSE [rows |-> S \cup {inst}, idc |-> idc + 1, status |-> "ok"]

\* the loop of backfill_instances moving the last row forward instead of
\* adding a new one
RECURSIVE FillFrom_MovesLast(_, _, _, _, _)
FillFrom_MovesLast(h, last, S, idc, t) ==
    IF last < t
    THEN LET nxt == NextPeriodStart(h, last)
             old == InstancesAt(S, h.id, last)
             moved == {[i EXCEPT !.period_start = nxt,
                                 !.due_date = DueDate(h, nxt)] : i \in old}
         IN  FillFrom_MovesLast(h, nxt, (S \ old) \cup moved, idc, t)
    ELSE [rows |-> S, idc |-> idc, status |-> "ok"]

\* the while loop running until the latest row lies a week after today
RECURSIVE FillFrom_AWeekAhead(_, _, _, _, _)
FillFrom_AWeekAhead(h, last, S, idc, t) ==
    IF last < t + DaysPerWeek
    THEN LET nxt  == NextPeriodStart(h, last)
             inst == NewInstance(idc, h, nxt)
         IN  IF KeyFree(S, inst)
             THEN FillFrom_AWeekAhead(h, nxt, S \cup {inst}, idc + 1, t)
             ELSE [rows |-> S, idc |-> idc, status |-> "IntegrityError"]
    ELSE [rows |-> S, idc |-> idc, status |-> "ok"]

\* the while loop of backfill_instances for one habit whose last row starts
\* at last: session.add + commit of every next period until today is covered
RECURSIVE FillFrom(_, _, _, _, _)
FillFrom(h, last, S, idc, t) ==
    IF last < t
    THEN LET nxt  == NextPeriodStart(h, last)
             inst == NewInstance(idc, h, nxt)
         IN  IF KeyFree(S, inst)
             THEN FillFrom(h, nxt, S \cup {inst}, idc + 1, t)
             ELSE [rows |-> S, idc |-> idc, status |-> "IntegrityError"]
    ELSE [rows |-> S, idc |-> idc, status |-> "ok"]

\* the body of the for loop of backfill_instances for one habit
BackfillHabit(h, S, idc, t) ==
    LET mine == InstancesOf(S, h.id)
    IN  IF mine = {}
        THEN IF h.type = "weekly"
             THEN LET inst == NewInstance(idc, h, FirstPeriodStart(h, t))
                  IN  FillFrom(h, inst.period_start, S \cup {inst}, idc + 1, t)
             ELSE [rows |-> S, idc |-> idc, status |-> "AttributeError"]
        ELSE LET last == CHOOSE i \in mine :
                             \A j \in mine : j.period_start <= i.period_start
             IN  FillFrom(h, last.period_start, S, idc, t)

\* the for loop of backfill_instances over the habits in the order the
\* query returned them; an exception ends it, the rows committed so far stay
RECURSIVE BackfillAll(_, _, _, _)
BackfillAll(order, S, idc, t) ==
    IF order = <<>> THEN [rows |-> S, idc |-> idc, status |-> "ok"]
    ELSE LET r == BackfillHabit(Head(order), S, idc, t)
         IN  IF r.status # "ok" THEN r
             ELSE BackfillAll(Tail(order), r.rows, r.idc, t)

\* the orders in which SELECT without ORDER BY may return the rows of H
Orders(H) ==
    {f \in [1..Cardinality(H) -> H] :
        \A i, j \in 1..Cardinality(H) : f[i] = f[j] => i = j}

\* database.backfill_instances()
BackfillInstances ==
    \E order \in Orders(habits) :
        LET r == BackfillAll(order, instances, nextId, today)
        IN  /\ instances' = r.rows
            /\ nextId' = r.idc
            /\ result' = Outcome("backfill_instances", r.status, None)
            /\ UNCHANGED <<today, habits, clock>>

\* delete_habit_by_id that deletes the habit row alone
DeleteHabitByIdIn_KeepsInstances(H, S, habit_id) ==
    [habits    |-> {h \in H : h.id # habit_id},
     instances |-> S]

\* database.delete_habit_by_id(habit_id): both DELETEs, one commit
DeleteHabitByIdIn(H, S, habit_id) ==
    [habits    |-> {h \in H : h.id # habit_id},
     instances |-> {i \in S : i.habit_id # habit_id}]

\* where a storage failure may strike delete_habit_by_id: nowhere, at the
\* DELETE of the habit, at the DELETE of its instances, at the commit
FailPoints == {"none", "delete_habit", "delete_instances", "commit"}

\* delete_habit_by_id on a connection that commits every statement by
\* itself
DeleteHabitByIdTx_CommitsEachStatement(H, S, habit_id, fail) ==
    LET first == [habits |-> {h \in H : h.id # habit_id}, instances |-> S]
        both  == DeleteHabitByIdIn(H, S, habit_id)
        left  == IF fail = "delete_habit" THEN [habits |-> H, instances |-> S]
                 ELSE IF fail = "delete_instances" THEN first
                 ELSE both
    IN  [habits |-> left.habits, instances |-> left.instances,
         status |-> IF fail = "none" THEN "ok" ELSE "StorageError"]

\* delete_habit_by_id(habit_id) with a storage failure at fail: the two
\* DELETEs run in one session and become visible at session.commit(); an
\* exception leaves the with block, which closes the session and rolls the
\* pending DELETEs back
DeleteHabitByIdTx(H, S, habit_id, fail) ==
    LET pending   == DeleteHabitByIdIn(H, S, habit_id)
        committed == IF fail = "none" THEN pending
                     ELSE [habits |-> H, instances |-> S]
    IN  [habits |-> committed.habits, instances |-> committed.instances,
         status |-> IF fail = "none" THEN "ok" ELSE "StorageError"]

\* database.delete_habit_by_id(habit.id)
DeleteHabitById(h, fail) ==
    LET r == DeleteHabitByIdTx(habits, instances, h.id, fail)
    IN  /\ habits' = r.habits
        /\ instances' = r.instances
        /\ result' = Outcome("delete_habit_by_id", r.status, h.id)
        /\ UNCHANGED <<today, nextId, clock>>

\* cli.delete_habit_cli(name), the confirmation answered with yes
DeleteHabit(name) ==
    LET hs == HabitsNamed(habits, name)
    IN  IF hs = {}
        THEN /\ result' = Outcome("delete_habit", "NotFound", None)
             /\ UNCHANGED <<today, habits, instances, nextId, clock>>
        ELSE LET r == DeleteHabitByIdIn(habits, instances,
                                        (CHOOSE h \in hs : TRUE).id)
             IN  /\ habits' = r.habits
                 /\ instances' = r.instances
                 /\ result' = Outcome("delete_habit", "ok", None)
                 /\ UNCHANGED <<today, nextId, clock>>

\* ---------------------------------------------------- longest_streak_all
\* the habit names in the order ORDER BY Habit.name sorts them
NameOrder == <<"a", "b">>

\* get_all_habits that ignores the period filter
GetAllHabits_Unfiltered(H, period) ==
    LET IsWanted(n) == HabitsNamed(H, n) # {}
        present == SelectSeq(NameOrder, IsWanted)
    IN  [k \in 1..Len(present) |-> CHOOSE h \in H : h.name = present[k]]

\* database.get_all_habits(period): the habits of the period ("all" for
\* every habit), ordered by name
GetAllHabits(H, period) ==
    LET wanted  == {h \in H : period = "all" \/ h.type = period}
        IsWanted(n) == HabitsNamed(wanted, n) # {}
        present == SelectSeq(NameOrder, IsWanted)
    IN  [k \in 1..Len(present) |->
             CHOOSE h \in wanted : h.name = present[k]]

\* streak_for(habit) of longest_streak_all: current_streak_for_habit
\* returns an int, so the branch that converts a date is never taken
StreakFor(S, h, t) == <<h.name, CurrentStreakIn(S, h, t)>>

\* dict(map(streak_for, habits)): a later pair replaces an earlier one with
\* the same name
RECURSIVE StreaksDict(_, _, _, _)
StreaksDict(list, S, t, acc) ==
    IF list = <<>> THEN acc
    ELSE LET pair == StreakFor(S, Head(list), t)
         IN  StreaksDict(Tail(list), S, t, (pair[1] :> pair[2]) @@ acc)

\* max(...) that answers the first value instead of the greatest
OverallMax_First(values) ==
    IF values = <<>> THEN 0 ELSE values[1]

\* max(streaks.values(), default=0)
OverallMax(values) ==
    IF values = <<>> THEN 0
    ELSE LET all == {values[k] : k \in 1..Len(values)}
         IN  CHOOSE m \in all : \A v \in all : v <= m

\* database.longest_streak_all(habits, all_instances) over the rows S
LongestStreakAllIn(list, S, t) ==
    LET streaks == StreaksDict(list, S, t, <<>>)
        names   == SelectSeq(NameOrder, LAMBDA n : n \in DOMAIN streaks)
    IN  [per_habit  |-> streaks,
         max_of_all |-> OverallMax([k \in 1..Len(names) |-> streaks[names[k]]])]

\* database.longest_streak_all(get_all_habits(period), ...)
LongestStreakAll(period) ==
    /\ result' = Outcome("longest_streak_all", "ok",
                         LongestStreakAllIn(GetAllHabits(habits, period),
                                            instances, today))
    /\ UNCHANGED <<today, habits, instances, nextId, clock>>

\* the period filters get_all_habits is called with
Periods == {"all", "daily", "weekly"}

\* the dates a call is made with
SaveDates == {d \in (today - MaxBack)..today : d >= 0}
StartDates == {d \in (today - MaxBack)..(today + 1) : d >= 0}
CompleteDates == {today} \cup {i.period_start : i \in instances}

\* the run stays within max_id identifiers and max_clock timestamps
Bounded(max_id, max_clock) ==
    nextId' <= max_id + 1 /\ clock' <= max_clock + 1

\* no call is in progress: the caller has taken the last outcome
Idle == result.op = "none"

\* the caller takes the outcome of the call (a return value or an exception)
Return ==
    /\ ~Idle
    /\ result' = Outcome("none", "idle", None)
    /\ UNCHANGED <<today, habits, instances, nextId, clock>>

Next ==
    \/ Idle /\ AdvanceDay(MaxDay) /\ UNCHANGED pc
    \/ Idle /\ UNCHANGED pc /\ \E name \in Names, k \in Kinds :
           SaveHabit(name, k[1], k[2]) /\ Bounded(MaxId, MaxClock)
    \/ Idle /\ UNCHANGED pc /\ \E h \in habits, d \in SaveDates :
           SaveInstance(h, d) /\ Bounded(MaxId, MaxClock)
    \/ Idle /\ UNCHANGED pc /\ \E name \in Names, k \in Kinds, d \in StartDates :
           AddHabit(name, d, k[1], k[2]) /\ Bounded(MaxId, MaxClock)
    \/ Idle /\ UNCHANGED pc /\ \E name \in Names, d \in CompleteDates :
           CompleteTask(name, d) /\ Bounded(MaxId, MaxClock)
    \/ Idle /\ UNCHANGED pc /\ BackfillInstances /\ Bounded(MaxId, MaxClock)
    \/ Idle /\ UNCHANGED pc /\ \E name \in Names : DeleteHabit(name)
    \/ Idle /\ UNCHANGED pc /\ \E period \in Periods : LongestStreakAll(period)
    \/ Idle /\ UNCHANGED pc /\ \E h \in habits, fail \in FailPoints :
           DeleteHabitById(h, fail)
    \/ Return /\ UNCHANGED pc

Spec == Init /\ [][Next]_vars

\* timelines built by add-habit, backfill and complete only, for one habit
\* name, over more than a week
TimelineNames == {"a"}

TimelineNext ==
    \/ Idle /\ AdvanceDay(TimelineMaxDay) /\ UNCHANGED pc
    \/ Idle /\ UNCHANGED pc
           /\ \E name \in TimelineNames, k \in Kinds, d \in StartDates :
                  AddHabit(name, d, k[1], k[2])
                  /\ Bounded(TimelineMaxId, TimelineMaxClock)
    \/ Idle /\ UNCHANGED pc
           /\ \E name \in TimelineNames, d \in CompleteDates :
                  CompleteTask(name, d)
                  /\ Bounded(TimelineMaxId, TimelineMaxClock)
    \/ Idle /\ UNCHANGED pc
           /\ BackfillInstances /\ Bounded(TimelineMaxId, TimelineMaxClock)
    \/ Idle /\ UNCHANGED pc /\ \E name \in TimelineNames : DeleteHabit(name)
    \/ Return /\ UNCHANGED pc

SpecTimeline == Init /\ [][TimelineNext]_vars

\* The three-day script: any habits may exist and any day may be today when
\* a Daily habit is created with its first instance today (step 1); then on
\* that day and the two after it backfill runs (steps 2, 5, 8) and
\* complete(habit, today) is called (steps 3, 6, 9), the calendar moving on
\* in between (steps 4, 7).
ThreeDaysNext ==
    \/ pc.step = 0 /\ AdvanceDay(TimelineMaxDay) /\ UNCHANGED pc
    \/ pc.step = 0 /\ UNCHANGED pc
           /\ \E name \in Names, k \in Kinds, d \in StartDates :
                  AddHabit(name, d, k[1], k[2])
                  /\ Bounded(TimelineMaxId, TimelineMaxClock)
    \/ pc.step = 0
           /\ \E name \in Names :
                  /\ AddHabit(name, today, "daily", None)
                  /\ Bounded(TimelineMaxId, TimelineMaxClock)
                  /\ result'.status = "ok"
                  /\ pc' = [step |-> 1, name |-> name]
    \/ pc.step \in {1, 4, 7}
           /\ BackfillInstances /\ Bounded(TimelineMaxId, TimelineMaxClock)
           /\ pc' = [pc EXCEPT !.step = @ + 1]
    \/ pc.step \in {2, 5, 8}
           /\ CompleteTask(pc.name, today)
           /\ Bounded(TimelineMaxId, TimelineMaxClock)
           /\ pc' = [pc EXCEPT !.step = @ + 1]
    \/ pc.step \in {3, 6}
           /\ AdvanceDay(TimelineMaxDay)
           /\ pc' = [pc EXCEPT !.step = @ + 1]

SpecThreeDays == Init /\ [][ThreeDaysNext]_vars

\* --------------------------------------------- commands on a failing store
\* add-habit, backfill and complete on a store that may fail during
\* complete_task
FaultsNext ==
    \/ Idle /\ AdvanceDay(MaxDay) /\ UNCHANGED pc
    \/ Idle /\ UNCHANGED pc /\ \E name \in Names, k \in Kinds, d \in StartDates :
           AddHabit(name, d, k[1], k[2]) /\ Bounded(MaxId, MaxClock)
    \/ Idle /\ UNCHANGED pc /\ BackfillInstances /\ Bounded(MaxId, MaxClock)
    \/ Idle /\ UNCHANGED pc
           /\ \E name \in Names, d \in CompleteDates, fail \in CompleteFailPoints :
                  CompleteTaskFailing(name, d, fail) /\ Bounded(MaxId, MaxClock)
    \/ Return /\ UNCHANGED pc

SpecFaults == Init /\ [][FaultsNext]_vars

\* two habits side by side, built by add-habit, backfill and complete
PairNext ==
    \/ Idle /\ AdvanceDay(PairMaxDay) /\ UNCHANGED pc
    \/ Idle /\ UNCHANGED pc
           /\ \E name \in Names, k \in Kinds, d \in StartDates :
                  AddHabit(name, d, k[1], k[2])
                  /\ Bounded(PairMaxId, PairMaxClock)
    \/ Idle /\ UNCHANGED pc
           /\ \E name \in Names, d \in CompleteDates :
                  CompleteTask(name, d) /\ Bounded(PairMaxId, PairMaxClock)
    \/ Idle /\ UNCHANGED pc
           /\ BackfillInstances /\ Bounded(PairMaxId, PairMaxClock)
    \/ Return /\ UNCHANGED pc

SpecPair == Init /\ [][PairNext]_vars

\* ------------------------------------------------ the command line (cli.py)
\* the option --name left out
NoName == ""

\* the commands wrapped by @ensure_up_to_date
Wrapped ==
    {"list-all-habits", "list-all-active-habits", "complete-task",
     "show-longest-streak"}

\* the commands of cli.py that the model runs
Commands == Wrapped \cup {"add_habit", "delete_habit", "ensure_up_to_date"}

\* the Python class of the exception a failed call raises
ExceptionClass(status) ==
    IF status \in {"DuplicateName", "NoHabit", "NoInstance",
                   "AlreadyCompleted", "NotFound"}
    THEN "ValueError"
    ELSE status

\* the except clauses around the body of each command: complete_task has
\* except ValueError, SQLAlchemyError and Exception, show_longest_streak has
\* except ValueError, the others have none; the backfill of the wrapper runs
\* outside all of them
Caught(command) ==
    CASE command = "complete-task" ->
             {"ValueError", "StatementError", "AttributeError"}
      [] command = "show-longest-streak" -> {"ValueError"}
      [] OTHER -> {}

\* how a command ends: "done" when nothing was raised, "reported" when an
\* except clause printed the error, "uncaught" when the exception left the
\* command
CliStatus(command, status) ==
    IF status = "ok" THEN "done"
    ELSE IF ExceptionClass(status) \in Caught(command) THEN "reported"
    ELSE "uncaught"

\* a wrapper that invokes the command without the backfill
EnsureUpToDate_NoBackfill(command, args) ==
    /\ result' = Outcome(command, "backfilled", args)
    /\ UNCHANGED <<today, habits, instances, nextId, clock>>

\* wrapper(ctx, ...) of ensure_up_to_date: database.backfill_instances(),
\* then ctx.invoke(f, ...); an exception of the backfill leaves the wrapper
\* before f is invoked
EnsureUpToDate(command, args) ==
    \E order \in Orders(habits) :
        LET r == BackfillAll(order, instances, nextId, today)
        IN  /\ instances' = r.rows
            /\ nextId' = r.idc
            /\ result' = IF r.status = "ok"
                         THEN Outcome(command, "backfilled", args)
                         ELSE Outcome("ensure_up_to_date", r.status, command)
            /\ UNCHANGED <<today, habits, clock>>

\* ctx.invoke(f, ...) is reached: the wrapper's backfill has returned
Invoked(command) == result.op = command /\ result.status = "backfilled"

\* cli.list_all_habits(habit_type): "all" is passed on as None, which
\* get_all_habits reads as "all" again
ListAllHabits ==
    /\ Invoked("list-all-habits")
    /\ result' = Outcome("list-all-habits", "ok",
                         GetAllHabits(habits, result.value.habit_type))
    /\ UNCHANGED <<today, habits, instances, nextId, clock>>

\* database.get_all_active_habits(name): get_habit_by_name(name) is None for
\* an unknown name and None.id raises AttributeError
GetAllActiveHabits(H, S, name) ==
    IF name = NoName THEN [status |-> "ok", value |-> S]
    ELSE IF HabitsNamed(H, name) = {}
         THEN [status |-> "AttributeError", value |-> {}]
         ELSE [status |-> "ok",
               value |-> InstancesOf(S, (CHOOSE h \in HabitsNamed(H, name) :
                                            TRUE).id)]

\* cli.list_all_active_habits(name)
ListAllActiveHabits ==
    /\ Invoked("list-all-active-habits")
    /\ LET r == GetAllActiveHabits(habits, instances, result.value.name)
       IN  result' = Outcome("list-all-active-habits", r.status, r.value)
    /\ UNCHANGED <<today, habits, instances, nextId, clock>>

\* cli.complete_task(name, date): --date has no type, so a given date is a
\* string, and the instance lookup of database.complete_task fails to bind
\* it to the Date column (StatementError, a SQLAlchemyError) once the habit
\* was found; without --date the date is today
CliCompleteTask ==
    /\ Invoked("complete-task")
    /\ LET name == result.value.name
           r == CompleteTaskIn(habits, instances, nextId, clock, name, today)
       IN  IF result.value.dated
           THEN /\ result' = Outcome("complete-task",
                                     IF HabitsNamed(habits, name) = {}
                                     THEN "NoHabit" ELSE "StatementError",
                                     None)
                /\ UNCHANGED <<instances, nextId, clock>>
           ELSE /\ instances' = r.rows
                /\ nextId' = r.idc
                /\ clock' = r.now
                /\ result' = Outcome("complete-task", r.status, None)
    /\ UNCHANGED <<today, habits>>

\* cli.show_longest_streak(name): without a name longest_streak_all over all
\* habits; with one, current_streak_for_habit(get_habit_by_name(name)), where
\* habit.id of None raises AttributeError inside try ... except ValueError
ShowLongestStreak ==
    /\ Invoked("show-longest-streak")
    /\ LET name == result.value.name
           hs == HabitsNamed(habits, name)
       IN  result' =
               IF name = NoName
               THEN Outcome("show-longest-streak", "ok",
                            LongestStreakAllIn(GetAllHabits(habits, "all"),
                                               instances, today).max_of_all)
               ELSE IF hs = {}
                    THEN Outcome("show-longest-streak", "AttributeError", None)
                    ELSE Outcome("show-longest-streak", "ok",
                                 CurrentStreak(CHOOSE h \in hs : TRUE))
    /\ UNCHANGED <<today, habits, instances, nextId, clock>>

\* the command ends: its output is printed or its exception leaves the
\* process; ctx.invoke(f, ...) always follows a backfill that returned
CliReturn == result.status # "backfilled" /\ Return

\* the arguments each wrapped command is started with
CommandLines ==
    {<<"list-all-habits", [habit_type |-> p]>> : p \in Periods}
    \cup {<<"list-all-active-habits", [name |-> n]>> :
              n \in Names \cup {NoName}}
    \cup {<<"complete-task", [name |-> n, dated |-> b]>> :
              n \in Names, b \in BOOLEAN}
    \cup {<<"show-longest-streak", [name |-> n]>> :
              n \in Names \cup {NoName}}

\* the commands of the command line, one at a time, next to a program that
\* stores habits with save_habit alone
CliNext ==
    \/ Idle /\ AdvanceDay(MaxDay) /\ UNCHANGED pc
    \/ Idle /\ UNCHANGED pc /\ \E name \in Names, k \in Kinds :
           SaveHabit(name, k[1], k[2]) /\ Bounded(MaxId, MaxClock)
    \/ Idle /\ UNCHANGED pc /\ \E name \in Names, k \in Kinds, d \in StartDates :
           AddHabit(name, d, k[1], k[2]) /\ Bounded(MaxId, MaxClock)
    \/ Idle /\ UNCHANGED pc /\ \E name \in Names : DeleteHabit(name)
    \/ Idle /\ UNCHANGED pc /\ \E c \in CommandLines :
           EnsureUpToDate(c[1], c[2]) /\ Bounded(MaxId, MaxClock)
    \/ ListAllHabits /\ UNCHANGED pc
    \/ ListAllActiveHabits /\ UNCHANGED pc
    \/ CliCompleteTask /\ Bounded(MaxId, MaxClock) /\ UNCHANGED pc
    \/ ShowLongestStreak /\ UNCHANGED pc
    \/ CliReturn /\ UNCHANGED pc

SpecCli == Init /\ [][CliNext]_vars

\* ------------------------------------- two programs working on one store
\* Each statement and each commit of a call is a step of its own, the steps
\* of the two programs interleave; pc maps a program to the call it is in.
Procs == {"p", "q"}

\* a program between two calls
NoCall == [op |-> "none", at |-> "idle"]

RaceInit ==
    /\ today = 0
    /\ habits = {}
    /\ instances = {}
    /\ nextId = 1
    /\ clock = 1
    /\ result = Outcome("none", "idle", None)
    /\ pc = [p \in Procs |-> NoCall]

AllIdle == \A p \in Procs : pc[p] = NoCall

\* the call of program p goes on to its next statement
Goto(p, local) ==
    /\ pc' = [pc EXCEPT ![p] = local]
    /\ UNCHANGED result

\* the call of program p returns or raises
End(p, status) ==
    /\ pc' = [pc EXCEPT ![p] = NoCall]
    /\ result' = Outcome(pc[p].op, status, None)

\* session.add(instance); session.commit() with no constraint on the table
InsertIn_NoConstraint(S, idc, h, d) ==
    [rows |-> S \cup {NewInstance(idc, h, d)}, idc |-> idc + 1,
     status |-> "ok"]

\* session.add(instance); session.commit(): the INSERT fails with
\* IntegrityError when the UniqueConstraint finds the key stored
InsertIn(S, idc, h, d) ==
    LET inst == NewInstance(idc, h, d)
    IN  IF KeyFree(S, inst)
        THEN [rows |-> S \cup {inst}, idc |-> idc + 1, status |-> "ok"]
        ELSE [rows |-> S, idc |-> idc, status |-> "IntegrityError"]

\* save_instance(HabitInstance(h, d)) is called
StartSaveInstance(p, h, d) ==
    /\ pc[p] = NoCall
    /\ Goto(p, [op |-> "save_instance", at |-> "check", habit |-> h,
                date |-> d])
    /\ UNCHANGED <<today, habits, instances, nextId, clock>>

\* step 1 of save_instance, the SELECT of an existing id, in a call of
\* save_instance or in the one complete_task makes
SaveInstanceCheck(p) ==
    /\ pc[p].at = "check"
    /\ IF InstancesAt(instances, pc[p].habit.id, pc[p].date) # {}
       THEN End(p, "existing")
       ELSE Goto(p, [pc[p] EXCEPT !.at = "insert"])
    /\ UNCHANGED <<today, habits, instances, nextId, clock>>

\* step 2 of save_instance: session.add, session.commit
SaveInstanceInsert(p) ==
    /\ pc[p].at = "insert"
    /\ LET r == InsertIn(instances, nextId, pc[p].habit, pc[p].date)
       IN  /\ instances' = r.rows
           /\ nextId' = r.idc
           /\ End(p, r.status)
    /\ UNCHANGED <<today, habits, clock>>

\* backfill_instances() is called: session.query(Habit).all()
StartBackfill(p) ==
    /\ pc[p] = NoCall
    /\ \E order \in Orders(habits) :
           Goto(p, [op |-> "backfill_instances", at |-> "query",
                    order |-> order])
    /\ UNCHANGED <<today, habits, instances, nextId, clock>>

\* the query for the most recent instance of the next habit of the for loop
BackfillQuery(p) ==
    /\ pc[p].at = "query"
    /\ IF pc[p].order = <<>> THEN End(p, "ok")
       ELSE LET h == Head(pc[p].order)
                mine == InstancesOf(instances, h.id)
            IN  IF mine = {}
                THEN IF h.type = "weekly"
                     THEN Goto(p, [pc[p] EXCEPT !.at = "seed"])
                     ELSE End(p, "AttributeError")
                ELSE Goto(p, [op |-> "backfill_instances", at |-> "while",
                              order |-> pc[p].order,
                              last |-> (CHOOSE i \in mine : \A j \in mine :
                                  j.period_start <= i.period_start).period_start])
    /\ UNCHANGED <<today, habits, instances, nextId, clock>>

\* the first instance of a habit without instances: add, commit
BackfillSeed(p) ==
    /\ pc[p].at = "seed"
    /\ LET h == Head(pc[p].order)
           first == FirstPeriodStart(h, today)
           r == InsertIn(instances, nextId, h, first)
       IN  /\ instances' = r.rows
           /\ nextId' = r.idc
           /\ IF r.status = "ok"
              THEN Goto(p, [op |-> "backfill_instances", at |-> "while",
                            order |-> pc[p].order, last |-> first])
              ELSE End(p, r.status)
    /\ UNCHANGED <<today, habits, clock>>

\* one test of the while loop and, when it holds, one iteration: add, commit
BackfillWhile(p) ==
    /\ pc[p].at = "while"
    /\ LET h == Head(pc[p].order)
           nxt == NextPeriodStart(h, pc[p].last)
           r == InsertIn(instances, nextId, h, nxt)
       IN  IF pc[p].last < today
           THEN /\ instances' = r.rows
                /\ nextId' = r.idc
                /\ IF r.status = "ok"
                   THEN Goto(p, [pc[p] EXCEPT !.last = nxt])
                   ELSE End(p, r.status)
           ELSE /\ Goto(p, [op |-> "backfill_instances", at |-> "query",
                            order |-> Tail(pc[p].order)])
                /\ UNCHANGED <<instances, nextId>>
    /\ UNCHANGED <<today, habits, clock>>

\* complete_task(name, date) is called
StartCompleteTask(p, name, date) ==
    /\ pc[p] = NoCall
    /\ Goto(p, [op |-> "complete_task", at |-> "lookup", name |-> name,
                date |-> date])
    /\ UNCHANGED <<today, habits, instances, nextId, clock>>

\* the lookups of complete_task up to instance.is_completed()
CompleteLookup(p) ==
    /\ pc[p].at = "lookup"
    /\ LET hs == HabitsNamed(habits, pc[p].name)
           h == CHOOSE x \in hs : TRUE
           found == InstancesAt(instances, h.id, pc[p].date)
           instance == CHOOSE i \in found : TRUE
       IN  IF hs = {} THEN End(p, "NoHabit")
           ELSE IF found = {} THEN End(p, "NoInstance")
           ELSE IF IsCompleted(instance) THEN End(p, "AlreadyCompleted")
           ELSE Goto(p, [op |-> "complete_task", at |-> "mark", habit |-> h,
                         instance_id |-> instance.id,
                         date |-> NextPeriodStart(h, instance.period_start)])
    /\ UNCHANGED <<today, habits, instances, nextId, clock>>

\* instance.mark_completed(); session.commit(): the UPDATE of the row
CompleteMark(p) ==
    /\ pc[p].at = "mark"
    /\ instances' = {IF i.id = pc[p].instance_id THEN MarkCompleted(i, clock)
                     ELSE i : i \in instances}
    /\ clock' = clock + 1
    /\ Goto(p, [op |-> "complete_task", at |-> "successor_lookup",
                habit |-> pc[p].habit, date |-> pc[p].date])
    /\ UNCHANGED <<today, habits, nextId>>

\* the SELECT of the next period's instance; save_instance is called when
\* there is none
CompleteSuccessorLookup(p) ==
    /\ pc[p].at = "successor_lookup"
    /\ IF InstancesAt(instances, pc[p].habit.id, pc[p].date) # {}
       THEN End(p, "ok")
       ELSE Goto(p, [pc[p] EXCEPT !.at = "check"])
    /\ UNCHANGED <<today, habits, instances, nextId, clock>>

\* the kinds of habit the two programs work on
RaceKinds == {k \in Kinds : k[2] = None}

\* the calls each program makes: both save instances, one of them also
\* backfills while the other completes tasks
Backfiller == "p"
Completer == "q"

RaceNext ==
    \/ AllIdle /\ AdvanceDay(MaxDay) /\ UNCHANGED pc
    \/ AllIdle /\ UNCHANGED pc /\ \E name \in TimelineNames, k \in RaceKinds :
           SaveHabit(name, k[1], k[2]) /\ Bounded(RaceMaxId, RaceMaxClock)
    \/ AllIdle /\ UNCHANGED pc
           /\ \E name \in TimelineNames, k \in RaceKinds, d \in StartDates :
                  AddHabit(name, d, k[1], k[2])
                  /\ Bounded(RaceMaxId, RaceMaxClock)
    \/ \E p \in Procs, h \in habits, d \in SaveDates : StartSaveInstance(p, h, d)
    \/ \E p \in Procs : SaveInstanceCheck(p)
    \/ \E p \in Procs : SaveInstanceInsert(p) /\ Bounded(RaceMaxId, RaceMaxClock)
    \/ StartBackfill(Backfiller)
    \/ BackfillQuery(Backfiller)
    \/ BackfillSeed(Backfiller) /\ Bounded(RaceMaxId, RaceMaxClock)
    \/ BackfillWhile(Backfiller) /\ Bounded(RaceMaxId, RaceMaxClock)
    \/ \E name \in TimelineNames, d \in CompleteDates :
           StartCompleteTask(Completer, name, d)
    \/ CompleteLookup(Completer)
    \/ CompleteMark(Completer) /\ Bounded(RaceMaxId, RaceMaxClock)
    \/ CompleteSuccessorLookup(Completer)

SpecRace == RaceInit /\ [][RaceNext]_vars

\* ------------------------------------------- the recurrence rule alone
\* every weekday a Weekly habit can be pinned to, and none
AllWeekdays == {None} \cup 0..(DaysPerWeek - 1)
AllKinds == {<<"daily", None>>} \cup {<<"weekly", w>> : w \in AllWeekdays}

\* one habit of any kind with one instance at any date, on any day
RecurrenceInit ==
    /\ today \in 0..RecurrenceMaxDay
    /\ \E k \in AllKinds : \E d \in 0..RecurrenceMaxDay :
           /\ habits = {NewHabit(1, "a", k[1], k[2])}
           /\ instances = {NewInstance(2, NewHabit(1, "a", k[1], k[2]), d)}
    /\ nextId = 3
    /\ clock = 1
    /\ result = Outcome("none", "idle", None)
    /\ pc = [step |-> 0, name |-> ""]

\* habit.next_period_start(instance.period_start), as complete_task and
\* backfill_instances call it
CallNextPeriodStart ==
    /\ \E h \in habits : \E i \in InstancesOf(instances, h.id) :
           result' = Outcome("next_period_start", "ok",
                             NextPeriodStart(h, i.period_start))
    /\ UNCHANGED <<today, habits, instances, nextId, clock, pc>>

\* habit.first_period_start(date.today()), as backfill_instances calls it
CallFirstPeriodStart ==
    /\ \E h \in habits :
           result' = IF h.type = "weekly"
                     THEN Outcome("first_period_start", "ok",
                                  FirstPeriodStart(h, today))
                     ELSE Outcome("first_period_start", "AttributeError", None)
    /\ UNCHANGED <<today, habits, instances, nextId, clock, pc>>

RecurrenceNext ==
    \/ Idle /\ CallNextPeriodStart
    \/ Idle /\ CallFirstPeriodStart
    \/ Return /\ UNCHANGED pc

SpecRecurrence == RecurrenceInit /\ [][RecurrenceNext]_vars

\* ---------------------------------------------------------------- claims
\* the length of one period of the habit: a day or a week
Period(h) == IF h.type = "daily" THEN 1 ELSE DaysPerWeek

CompletedAt(h, d) == \E i \in InstancesAt(instances, h.id, d) : IsCompleted(i)
PendingAt(h, d) == \E i \in InstancesAt(instances, h.id, d) : ~IsCompleted(i)

\* the k periods before today are Completed and contiguous (no other instance
\* of the habit starts between them), and the period before those is Pending
\* or absent
PriorRun(h, k) ==
    /\ \A j \in 1..k : CompletedAt(h, today - j * Period(h))
    /\ \A i \in InstancesOf(instances, h.id) :
           (today - k * Period(h) < i.period_start /\ i.period_start < today)
               => \E j \in 1..k : i.period_start = today - j * Period(h)
    /\ ~CompletedAt(h, today - (k + 1) * Period(h))

\* C1: when today's instance is Pending and the k >= 1 periods before today
\* are Completed and contiguous, followed by a Pending or absent period, the
\* current streak is k: the open period at today does not zero the streak.
C1_OpenTodayKeepsStreak ==
    \A h \in habits : \A k \in 1..(today + 1) :
        (PendingAt(h, today) /\ PriorRun(h, k)) => CurrentStreak(h) = k

\* the scenario of C1: today Pending, the two periods before it Completed
C1_Witness ==
    \E h \in habits :
        PendingAt(h, today) /\ PriorRun(h, 2) /\ CurrentStreak(h) = 2

\* the number of contiguous Completed periods that end right before date d
RECURSIVE RunBefore(_, _)
RunBefore(h, d) ==
    IF CompletedAt(h, d - Period(h)) THEN 1 + RunBefore(h, d - Period(h)) ELSE 0

\* the habit's most recent instance that has started
IsCurrent(h, i) ==
    /\ i \in InstancesOf(instances, h.id)
    /\ i.period_start <= today
    /\ \A j \in InstancesOf(instances, h.id) :
           j.period_start <= today => j.period_start <= i.period_start

\* C2: a Pending instance that is not yet past due (due_date >= today) never
\* zeroes the streak: when the habit's current instance is Pending and not
\* past due and Completed periods precede it, the current streak is the
\* number of contiguous Completed periods before it.
C2_PendingNotDueKeepsStreak ==
    \A h \in habits : \A i \in instances :
        (IsCurrent(h, i) /\ ~IsCompleted(i) /\ i.due_date >= today
            /\ RunBefore(h, i.period_start) >= 1)
            => CurrentStreak(h) = RunBefore(h, i.period_start)

\* C3: a Daily habit whose instances at today, ..., today-(k-1) are Completed
\* and whose instance at today-k is Pending has current streak k, whatever
\* other instances (the successor at today+1 among them) are stored.
C3_DailyRunEndsAtPending ==
    \A h \in habits : \A k \in 1..(today + 1) :
        (h.type = "daily"
            /\ (\A j \in 0..(k - 1) : CompletedAt(h, today - j))
            /\ PendingAt(h, today - k))
            => CurrentStreak(h) = k

\* the streak test: today, today-1, today-2 Completed, today-3 Pending and
\* the successor that complete created at today+1
C3_Witness ==
    \E h \in habits :
        /\ h.type = "daily"
        /\ \A j \in 0..2 : CompletedAt(h, today - j)
        /\ PendingAt(h, today - 3)
        /\ PendingAt(h, today + 1)
        /\ CurrentStreak(h) = 3

\* the habit the three-day script is about
ScriptHabits == HabitsNamed(habits, pc.name)

\* C4: a Daily habit is created on day D with its first instance at D; on
\* each of the days D, D+1, D+2 backfill runs and then complete(habit, that
\* day) is called.  Before each complete call the instance of that day
\* exists and is Pending, each of the three calls succeeds, and after the
\* third one, on day D+2, the current streak is 3.
C4_ThreeDaysInARow ==
    /\ pc.step \in {2, 5, 8} =>
           /\ result.op = "backfill_instances" /\ result.status = "ok"
           /\ \A h \in ScriptHabits : PendingAt(h, today)
    /\ pc.step \in {3, 6, 9} =>
           /\ result.op = "complete_task" /\ result.status = "ok"
           /\ \A h \in ScriptHabits : CompletedAt(h, today)
    /\ pc.step >= 1 => Cardinality(ScriptHabits) = 1
    /\ pc.step = 9 => \A h \in ScriptHabits : CurrentStreak(h) = 3

\* the script has run to its end: the third completion, on day D+2, is done
C4_Witness ==
    /\ pc.step = 9
    /\ result.op = "complete_task" /\ result.status = "ok"
    /\ \E h \in ScriptHabits :
           /\ h.type = "daily"
           /\ \A j \in 0..2 : CompletedAt(h, today - j)

\* the habit's instances that start no later than today
StartedUpToToday(h) ==
    {i \in InstancesOf(instances, h.id) : i.period_start <= today}

\* the habit's Completed instances that start no later than today
CompletedUpToToday(h) ==
    {i \in InstancesOf(instances, h.id) :
         i.period_start <= today /\ IsCompleted(i)}

\* C5: for a habit whose only instance is dated today (the successor that
\* completing it creates for the next period aside) the current streak is
\* 1 when that instance is Completed and 0 when it is not; for every stored
\* habit, one without instances included, the current streak is a
\* non-negative integer (never an error) and is at most the number of the
\* habit's Completed instances with period_start <= today.
C5_StreakOfOnlyInstance ==
    \A h \in habits :
        /\ CurrentStreak(h) \in Nat
        /\ CurrentStreak(h) <= Cardinality(CompletedUpToToday(h))
        /\ InstancesOf(instances, h.id) = {} => CurrentStreak(h) = 0
        /\ \A i \in instances :
               (StartedUpToToday(h) = {i} /\ i.period_start = today)
                   => CurrentStreak(h) = IF IsCompleted(i) THEN 1 ELSE 0

\* the only instance of a habit is dated today and has just been completed
C5_Witness ==
    /\ result.op = "complete_task" /\ result.status = "ok"
    /\ \E h \in habits : \E i \in instances :
           /\ StartedUpToToday(h) = {i}
           /\ i.period_start = today /\ IsCompleted(i)
           /\ CurrentStreak(h) = 1

\* the step is a call complete(name, d) that ends with the given outcome
Completes(name, d, status) ==
    /\ Idle
    /\ result'.op = "complete_task" /\ result'.status = status
    /\ CompleteTask(name, d)

\* what a successful complete(name, d) leaves behind
CompletePost(name, d) ==
    \A h \in HabitsNamed(habits, name) :
        LET nps    == NextPeriodStart(h, d)
            target == InstancesAt(instances, h.id, d)
            before == InstancesAt(instances, h.id, nps)
            after  == InstancesAt(instances', h.id, nps)
            fresh  == instances' \ instances
        IN  /\ InstancesAt(instances', h.id, d) # {}
            /\ \A i \in InstancesAt(instances', h.id, d) :
                   /\ IsCompleted(i)
                   /\ \E j \in target : i = MarkCompleted(j, clock)
            /\ Cardinality(after) = 1
            /\ before = {} =>
                   \A i \in after :
                       /\ ~IsCompleted(i)
                       /\ i.id \notin {j.id : j \in instances}
            /\ before # {} => after = before
            /\ fresh \subseteq InstancesAt(instances', h.id, d) \cup after
            /\ instances \ target \subseteq instances'
            /\ Cardinality(instances') =
                   Cardinality(instances) + (IF before = {} THEN 1 ELSE 0)

\* C6: after a successful complete(name, d) the instance at d is Completed
\* and exactly one instance of the habit exists at next_period_start(d):
\* created Pending when it was absent before the call, the very same row
\* when it was there already; no other instance is created or changed.
C6_CompleteCreatesOneSuccessor ==
    [][\A name \in Names : \A d \in CompleteDates :
           Completes(name, d, "ok") => CompletePost(name, d)]_vars

\* a complete call has succeeded and made the successor of its instance
C6_Witness ==
    /\ result.op = "complete_task" /\ result.status = "ok"
    /\ \E i \in instances : \E h \in habits :
           /\ i.habit_id = h.id /\ i.completed_at = clock - 1
           /\ \E j \in InstancesAt(instances, h.id,
                                   NextPeriodStart(h, i.period_start)) :
                  ~IsCompleted(j) /\ j.id = nextId - 1

\* the instance of the habit called name at d is already Completed
CompletedBefore(name, d) ==
    \E h \in HabitsNamed(habits, name) :
        \E i \in InstancesAt(instances, h.id, d) : IsCompleted(i)

\* C7: complete for a habit and date whose instance an earlier call has
\* completed fails with AlreadyCompleted and changes nothing: the instance
\* keeps its completed_at and no further successor is created.
C7_SecondCompleteRejected ==
    [][\A name \in Names : \A d \in CompleteDates :
           (/\ Idle /\ result'.op = "complete_task"
            /\ CompletedBefore(name, d)
            /\ CompleteTask(name, d)) =>
               /\ result'.status = "AlreadyCompleted"
               /\ UNCHANGED <<habits, instances, nextId, clock>>]_vars

\* a second complete call has been rejected
C7_Witness ==
    /\ result.op = "complete_task" /\ result.status = "AlreadyCompleted"
    /\ \E i \in instances : IsCompleted(i)

\* C8: complete(name, d) fails with the habit's not-found error when no
\* habit is called name, whatever instances are stored, and with the
\* instance's not-found error when the habit exists without an instance
\* starting at d; in both cases habits and instances stay as they were.
C8_CompleteNotFound ==
    [][\A name \in Names : \A d \in CompleteDates :
           (Idle /\ result'.op = "complete_task" /\ CompleteTask(name, d)) =>
               /\ HabitsNamed(habits, name) = {} =>
                      result'.status = "NoHabit" /\ UNCHANGED store
               /\ (/\ HabitsNamed(habits, name) # {}
                   /\ \A h \in HabitsNamed(habits, name) :
                          InstancesAt(instances, h.id, d) = {}) =>
                      result'.status = "NoInstance" /\ UNCHANGED store]_vars

\* complete has failed for a stored habit that has instances, none of them
\* at the date asked for
C8_Witness ==
    /\ result.op = "complete_task" /\ result.status = "NoInstance"
    /\ \E h \in habits : InstancesOf(instances, h.id) # {}

\* some habit still owns the instance
Owned(H, i) == \E h \in H : h.id = i.habit_id

\* C9: once an instance is Completed every later step (habit creation,
\* save_instance, backfill, complete) leaves it stored as it is, with the
\* same completed_at; it goes away only together with its habit.
C9_CompletionIsTerminal ==
    [][\A i \in instances :
           IsCompleted(i) => (i \in instances' \/ ~Owned(habits', i))]_vars

\* a Completed instance has lived through a later backfill that added rows
C9_Witness ==
    /\ result.op = "backfill_instances" /\ result.status = "ok"
    /\ \E i \in instances :
           /\ IsCompleted(i)
           /\ \E j \in instances :
                  j.habit_id = i.habit_id /\ j.id = nextId - 1 /\ j.id > i.id + 1

\* no two stored instances share (habit_id, period_start)
UniqueKeys ==
    \A i \in instances : \A j \in instances :
        (i.habit_id = j.habit_id /\ i.period_start = j.period_start) => i = j

\* C10: no two stored instances ever have the same (habit_id,
\* period_start), and save_instance for a key that is stored already
\* inserts nothing and returns the id of the stored instance.
C10_UniqueInstanceKey ==
    /\ []UniqueKeys
    /\ [][\A h \in habits : \A d \in SaveDates :
              (/\ Idle /\ result'.op = "save_instance"
               /\ InstancesAt(instances, h.id, d) # {}
               /\ SaveInstance(h, d)) =>
                  /\ UNCHANGED <<instances, nextId>>
                  /\ \E i \in InstancesAt(instances, h.id, d) :
                         result'.value = i.id]_vars

\* save_instance has been called for a stored key and returned the old id
C10_Witness ==
    /\ result.op = "save_instance" /\ result.status = "ok"
    /\ result.value < nextId - 1
    /\ \E i \in instances : i.id = result.value /\ IsCompleted(i)

\* the period starts stored for the habit
PeriodStarts(h) == {i.period_start : i \in InstancesOf(instances, h.id)}

\* the stored period starts form a chain under next_period_start: every one
\* but the first is the next period of the one stored just before it
GapFree(h) ==
    \A d \in PeriodStarts(h) :
        LET earlier == {e \in PeriodStarts(h) : e < d}
        IN  earlier # {} =>
                \E e \in earlier :
                    /\ \A f \in earlier : f <= e
                    /\ d = NextPeriodStart(h, e)

\* C11: after backfill has run, every habit made by add-habit whose first
\* instance starts on or before today has a gap-free chain of instances
\* under next_period_start that reaches today's period; for a Daily habit
\* the instance of today exists, so complete(habit, today) finds it.
C11_BackfillLeavesNoGap ==
    result.op = "backfill_instances" =>
        /\ result.status = "ok"
        /\ \A h \in habits :
               (\E d \in PeriodStarts(h) : d <= today) =>
                   /\ GapFree(h)
                   /\ \E d \in PeriodStarts(h) : d >= today
                   /\ \E d \in PeriodStarts(h) :
                          d <= today /\ today < NextPeriodStart(h, d)
                   /\ h.type = "daily" =>
                          /\ today \in PeriodStarts(h)
                          /\ CompleteTaskIn(habits, instances, nextId, clock,
                                            h.name, today).status
                                 \in {"ok", "AlreadyCompleted"}

\* backfill has just added the instances of at least two missed periods
C11_Witness ==
    /\ result.op = "backfill_instances" /\ result.status = "ok"
    /\ \E h \in habits :
           /\ {nextId - 1, nextId - 2}
                  \subseteq {i.id : i \in InstancesOf(instances, h.id)}
           /\ Cardinality(PeriodStarts(h)) >= 3
           /\ today \in PeriodStarts(h)

\* the period starts the rows S hold for the habit
StartsIn(S, h) == {i.period_start : i \in InstancesOf(S, h.id)}

\* C12 as stated: whenever backfill has finished, the latest period start
\* of every habit is >= today and < today + one period (1 day for Daily,
\* 7 days for Weekly); taken here for the habits that started on or before
\* today only.
C12_LatestWithinOnePeriod ==
    (result.op = "backfill_instances" /\ result.status = "ok") =>
        \A h \in habits :
            (\E d \in PeriodStarts(h) : d <= today) =>
                /\ \E d \in PeriodStarts(h) : d >= today
                /\ \A d \in PeriodStarts(h) : d < today + Period(h)

\* C12 amended: whenever backfill finishes, the latest period start of
\* every habit is >= today, every instance backfill inserted starts before
\* today + one period, and so does the latest one unless an instance that
\* starts after today was stored before the run.
C12_BackfillReachesToday ==
    [][(Idle /\ result'.op = "backfill_instances") =>
           \A h \in habits :
               StartsIn(instances, h) # {} =>
                   /\ result'.status = "ok"
                   /\ \E d \in StartsIn(instances', h) : d >= today
                   /\ \A d \in StartsIn(instances', h) \ StartsIn(instances, h) :
                          d < today + Period(h)
                   /\ (\A d \in StartsIn(instances, h) : d <= today) =>
                          \A d \in StartsIn(instances', h) :
                              d < today + Period(h)]_vars

\* backfill has finished for a Weekly habit by adding the period that holds
\* today, while the successor of a completed instance lies a period ahead
\* for another run
C12_Witness ==
    /\ result.op = "backfill_instances" /\ result.status = "ok"
    /\ \E h \in habits : \E i \in InstancesOf(instances, h.id) :
           /\ h.type = "weekly"
           /\ i.id = nextId - 1
           /\ i.period_start >= today
           /\ i.period_start < today + Period(h)
           /\ \E j \in InstancesOf(instances, h.id) : IsCompleted(j)

\* a second run of backfill over the rows r left by a first run, on the
\* same day, writes nothing and ends as the outcome says
SecondRunWritesNothing(order, r, status) ==
    LET again == BackfillAll(order, r.rows, r.idc, today)
    IN  /\ again.rows = r.rows
        /\ again.idc = r.idc
        /\ again.status = status

\* C13: backfill is idempotent: run a second time right after a first run,
\* with the same today, it performs no write; the instances (ids, period
\* starts, due dates, completion times) are the same before and after.
\* A first run that has finished is followed by a clean second run whatever
\* order the habits come in; a first run that raised is followed by a run
\* that raises at the same habit without writing.
C13_BackfillIdempotent ==
    \A order \in Orders(habits) :
        LET first == BackfillAll(order, instances, nextId, today)
        IN  /\ SecondRunWritesNothing(order, first, first.status)
            /\ first.status = "ok" =>
                   \A other \in Orders(habits) :
                       SecondRunWritesNothing(other, first, "ok")

\* backfill has just added a row while two habits are stored, and a second
\* run from here writes nothing
C13_Witness ==
    /\ result.op = "backfill_instances" /\ result.status = "ok"
    /\ Cardinality(habits) = 2
    /\ \E i \in instances : i.id = nextId - 1 /\ i.period_start = today
    /\ \A order \in Orders(habits) :
           BackfillAll(order, instances, nextId, today).rows = instances

\* firstPeriodStart as C14 has it: the date itself for a Daily habit, the
\* first matching weekday on or after the date for a Weekly one
ClaimedFirstPeriodStart(h, after) ==
    IF h.type = "daily" THEN after ELSE FirstPeriodStart(h, after)

\* C14: when backfill meets a stored habit without any instance it stores
\* exactly one first instance for it, at firstPeriodStart(habit, today)
\* (today for a Daily habit, the first matching weekday on or after today
\* for a Weekly one), and goes on with the remaining habits: the run ends
\* without an error.
C14_BackfillSeedsFirstInstance ==
    [][(Idle /\ result'.op = "backfill_instances") =>
           /\ result'.status = "ok"
           /\ \A h \in habits :
                  InstancesOf(instances, h.id) = {} =>
                      /\ StartsIn(instances', h)
                             = {ClaimedFirstPeriodStart(h, today)}
                      /\ \A i \in InstancesOf(instances', h.id) :
                             ~IsCompleted(i)]_vars

\* C15: backfill only appends: every instance stored before the run is
\* stored after it with the same period_start, due_date and completed_at
\* (so a first instance made together with its habit is left as it was),
\* and every instance the run inserts is Pending and has a new id.
C15_BackfillOnlyAppends ==
    [][(Idle /\ result'.op = "backfill_instances") =>
           /\ instances \subseteq instances'
           /\ \A i \in instances' \ instances :
                  /\ ~IsCompleted(i)
                  /\ i.id \notin {j.id : j \in instances}]_vars

\* backfill has added a row behind the first instance of a habit, which is
\* stored with the period start and due date add-habit gave it
C15_Witness ==
    /\ result.op = "backfill_instances" /\ result.status = "ok"
    /\ \E h \in habits : \E i, j \in InstancesOf(instances, h.id) :
           /\ i.id = h.id + 1
           /\ i.due_date = DueDate(h, i.period_start)
           /\ j.id = nextId - 1
           /\ j.period_start = NextPeriodStart(h, i.period_start)
           /\ ~IsCompleted(j)

\* the weekday a Weekly habit recurs on: its own, Monday when it has none
PinnedWeekday(h) == IF h.weekday = None THEN 0 ELSE h.weekday

\* C16: next_period_start of a Daily habit is d + 1 for every date d; of a
\* Weekly habit with weekday w (Monday when absent) it is a date with
\* weekday w, strictly after d, at most d + 7, and exactly d + 7 when d has
\* weekday w.
C16_NextPeriodStart ==
    result.op = "next_period_start" =>
        \A h \in habits : \A i \in InstancesOf(instances, h.id) :
            LET d == i.period_start
                r == result.value
            IN  /\ h.type = "daily" => r = d + 1
                /\ h.type = "weekly" =>
                       /\ r % 7 = PinnedWeekday(h)
                       /\ r > d
                       /\ r <= d + 7
                       /\ d % 7 = PinnedWeekday(h) => r = d + 7

\* next_period_start was applied to a Weekly habit on its own weekday and
\* answered a week later
C16_Witness ==
    /\ result.op = "next_period_start"
    /\ \E h \in habits : \E i \in InstancesOf(instances, h.id) :
           /\ h.type = "weekly" /\ h.weekday = 3
           /\ i.period_start % 7 = 3
           /\ result.value = i.period_start + 7

\* C17: first_period_start of a Weekly habit with weekday w (Monday when
\* absent) is, for every date, the earliest date on or after it that has
\* weekday w: 0 days ahead when the date has weekday w, 1 to 6 days ahead
\* otherwise.
C17_FirstPeriodStart ==
    result.op = "first_period_start" =>
        \A h \in habits :
            h.type = "weekly" =>
                LET r == result.value
                IN  /\ result.status = "ok"
                    /\ r % 7 = PinnedWeekday(h)
                    /\ r >= today
                    /\ \A e \in today..(r - 1) : e % 7 # PinnedWeekday(h)
                    /\ today % 7 = PinnedWeekday(h) => r = today
                    /\ today % 7 # PinnedWeekday(h) => r - today \in 1..6

\* first_period_start was applied to a habit without weekday on a Sunday
\* and answered the Monday after it
C17_Witness ==
    /\ result.op = "first_period_start" /\ result.status = "ok"
    /\ \E h \in habits : h.type = "weekly" /\ h.weekday = None
    /\ today % 7 = 6
    /\ result.value = today + 1

\* C18 as stated: for a Weekly habit pinned to weekday 0 (Monday)
\* first_period_start of a Wednesday is the Monday after it, 4 days later,
\* and first_period_start of a Monday is that Monday, 0 days later.
C18_MondayHabitFromWednesday ==
    (result.op = "first_period_start"
         /\ \E h \in habits : h.type = "weekly" /\ h.weekday = 0) =>
        /\ today % 7 = 2 => (result.value = today + 4 /\ result.value % 7 = 0)
        /\ today % 7 = 0 => result.value = today

\* C18 amended: for a Weekly habit pinned to weekday 0 (Monday)
\* first_period_start of a Wednesday is the Monday after it, which is 5
\* days later, and first_period_start of a Monday is that Monday, 0 days
\* later.
C18_MondayHabitFiveDaysOn ==
    (result.op = "first_period_start"
         /\ \E h \in habits : h.type = "weekly" /\ h.weekday = 0) =>
        /\ today % 7 = 2 => (result.value = today + 5 /\ result.value % 7 = 0)
        /\ today % 7 = 0 => result.value = today

\* first_period_start of a Wednesday for a Monday habit has been computed
C18_Witness ==
    /\ result.op = "first_period_start" /\ result.status = "ok"
    /\ \E h \in habits : h.type = "weekly" /\ h.weekday = 0
    /\ today % 7 = 2
    /\ result.value = today + 5

\* C19: the due_date of every instance made by add-habit, backfill or
\* complete follows the rule: period_start for a Daily habit and for a
\* Weekly habit with a weekday; for a Weekly habit without weekday
\* period_start + (6 - weekday(period_start)), the Sunday of the week that
\* holds period_start.  So due_date >= period_start and the two are at
\* most 6 days apart.
C19_DueDateRule ==
    \A h \in habits : \A i \in InstancesOf(instances, h.id) :
        /\ h.type = "daily" => i.due_date = i.period_start
        /\ (h.type = "weekly" /\ h.weekday # None) =>
               i.due_date = i.period_start
        /\ (h.type = "weekly" /\ h.weekday = None) =>
               /\ i.due_date = i.period_start + (6 - (i.period_start % 7))
               /\ i.due_date % 7 = 6
        /\ i.due_date >= i.period_start
        /\ i.due_date - i.period_start <= 6

\* a Weekly habit without weekday holds a first instance that add-habit
\* started in mid-week and a later one made by complete or backfill, both
\* due on their Sunday
C19_Witness ==
    \E h \in habits : \E i, j \in InstancesOf(instances, h.id) :
        /\ h.type = "weekly" /\ h.weekday = None
        /\ i.period_start % 7 = 2 /\ i.due_date = i.period_start + 4
        /\ j.id > i.id /\ j.due_date = j.period_start + 6

\* the habits get_all_habits(period) lists
Listed(period) == {h \in habits : period = "all" \/ h.type = period}

NoOrphans == \A i \in instances : Owned(habits, i)

\* C21: deleting a habit is an atomic cascade.  After a delete_habit_by_id
\* that succeeded the habit is not found by name and none of its instances
\* is left; after one that failed part-way habits and instances are as
\* before; so no state shows the habit without its instances or instances
\* without their habit, and nothing of another habit is touched.
C21_DeleteIsAtomicCascade ==
    /\ []NoOrphans
    /\ [][\A h \in habits : \A fail \in FailPoints :
              (/\ Idle /\ result'.op = "delete_habit_by_id"
               /\ DeleteHabitById(h, fail)) =>
                  /\ result'.status = "ok" =>
                         /\ HabitsNamed(habits', h.name) = {}
                         /\ InstancesOf(instances', h.id) = {}
                  /\ result'.status # "ok" => UNCHANGED store
                  /\ h \in habits' =>
                         InstancesOf(instances', h.id)
                             = InstancesOf(instances, h.id)
                  /\ InstancesOf(instances', h.id) # {} => h \in habits'
                  /\ habits \ {h} \subseteq habits'
                  /\ instances \ InstancesOf(instances, h.id)
                         \subseteq instances']_vars

\* a delete of a habit with a Completed instance has failed, and the habit
\* and its instances are all stored
C21_Witness ==
    /\ result.op = "delete_habit_by_id" /\ result.status = "StorageError"
    /\ \E h \in habits :
           /\ h.id = result.value
           /\ \E i \in InstancesOf(instances, h.id) : IsCompleted(i)

\* no two stored habits have the same name
UniqueNames ==
    \A g \in habits : \A h \in habits : g.name = h.name => g = h

\* C22: save_habit for a name that is stored already is rejected with the
\* duplicate-name ValueError and writes nothing: the stored habit is left
\* as it is and no second habit is added; hence no two stored habits ever
\* share a name.
C22_DuplicateNameRejected ==
    /\ []UniqueNames
    /\ [][\A name \in Names : \A k \in Kinds :
              (/\ Idle /\ result'.op = "save_habit"
               /\ HabitsNamed(habits, name) # {}
               /\ SaveHabit(name, k[1], k[2])) =>
                  /\ result'.status = "DuplicateName"
                  /\ UNCHANGED <<habits, instances, nextId>>]_vars

\* save_habit has been rejected for the name of the only stored habit,
\* which is not the first that was ever saved
C22_Witness ==
    /\ result.op = "save_habit" /\ result.status = "DuplicateName"
    /\ \E h \in habits : h.id > 1
    /\ Cardinality(habits) = 1

\* C23: a storage failure at any step of complete(name, d), the lookup and
\* the insert of the successor included, aborts the call with the store
\* exactly as before it: the instance at d is still Pending and no instance
\* was added.
C23_FailedCompleteLeavesNoTrace ==
    [][\A name \in Names : \A d \in CompleteDates :
           \A fail \in CompleteFailPoints :
               (/\ Idle /\ result'.op = "complete_task"
                /\ result'.status = "StorageError"
                /\ CompleteTaskFailing(name, d, fail)) =>
                   UNCHANGED store]_vars

\* the command whose outcome is in result left an exception uncaught
Uncaught ==
    /\ result.op \in Commands
    /\ result.status # "backfilled"
    /\ CliStatus(result.op, result.status) = "uncaught"

\* C24: no user-facing error leaves a command as an uncaught exception: not
\* the DuplicateName of add-habit, not the unknown habit name or missing
\* instance of complete-task, show-longest-streak --name and
\* list-all-active-habits --name, not the AlreadyCompleted of complete-task
C24_UserErrorsAreCaught ==
    /\ [](result.op = "add_habit" /\ result.status = "DuplicateName"
            => ~Uncaught)
    /\ [][/\ result.op \in {"complete-task", "show-longest-streak",
                            "list-all-active-habits"}
          /\ result.status = "backfilled"
          /\ result'.op = result.op
          /\ \/ HabitsNamed(habits, result.value.name) = {}
                /\ result.value.name # NoName
             \/ result'.status \in {"NoInstance", "AlreadyCompleted"}
          => ~Uncaught']_vars

\* the alphabetical order of the habit names in use
NameBefore(m, n) == m = "a" /\ n = "b"

\* C25: the list get_all_habits(kind) returns holds exactly the stored habits
\* of that kind ("all": every stored habit), each once, ordered by name
C25_GetAllHabitsByKind ==
    [][Invoked("list-all-habits") /\ result'.op = "list-all-habits"
       => LET kind == result.value.habit_type
              list == result'.value
              at   == 1..Len(list)
          IN  /\ {list[k] : k \in at}
                     = {h \in habits : kind = "all" \/ h.type = kind}
              /\ \A j, k \in at : j < k => list[j] # list[k]
              /\ \A j, k \in at : j < k => NameBefore(list[j].name, list[k].name)
      ]_vars

\* a filtered listing left a stored habit out, an unfiltered one listed two
C25_Witness ==
    /\ result.op = "list-all-habits" /\ result.status = "ok"
    /\ Cardinality(habits) = 2
    /\ Len(result.value) = 1

\* the latest period_start among the rows of habit h in S
LastStart(S, h) ==
    LET mine == InstancesOf(S, h.id)
    IN  (CHOOSE i \in mine : \A j \in mine : j.period_start <= i.period_start)
            .period_start

\* the rows a step added for habit h
AddedFor(h) == InstancesOf(instances', h.id) \ InstancesOf(instances, h.id)

\* the number of times the while loop of backfill ran for h in a step: one
\* row per iteration, after the row that seeds an empty timeline
Iterations(h) ==
    IF InstancesOf(instances, h.id) = {} /\ AddedFor(h) # {}
    THEN Cardinality(AddedFor(h)) - 1
    ELSE Cardinality(AddedFor(h))

\* the days the latest row of h lies before today when the loop starts
DaysBehind(h) ==
    LET last == IF InstancesOf(instances, h.id) = {}
                THEN FirstPeriodStart(h, today)
                ELSE LastStart(instances, h)
    IN  IF last < today THEN today - last ELSE 0

\* C26: the loop of backfill ends for every habit: every row it adds starts
\* at nextPeriodStart of a row of the habit, at least one day later, and it
\* runs at most as often as the habit's latest instance lies days before
\* today
C26_BackfillLoopIsBounded ==
    [][Idle /\ result'.op = "backfill_instances"
       => \A h \in habits :
              /\ \A i \in AddedFor(h) :
                     \/ InstancesOf(instances, h.id) = {}
                        /\ i.period_start = FirstPeriodStart(h, today)
                     \/ \E p \in InstancesOf(instances', h.id) :
                            /\ i.period_start = NextPeriodStart(h, p.period_start)
                            /\ i.period_start >= p.period_start + 1
                            /\ p.period_start < today
              /\ Iterations(h) <= DaysBehind(h)
      ]_vars

\* a backfill has run for a habit three days and more behind
C26_Witness ==
    /\ result.op = "backfill_instances" /\ result.status = "ok"
    /\ \E h \in habits :
           /\ Cardinality(InstancesOf(instances, h.id)) >= 4
           /\ \A i \in InstancesOf(instances, h.id) : ~IsCompleted(i)

\* a program is at a statement that inserts an instance row
Inserting(p) == pc[p].at \in {"insert", "seed", "while"}

\* C27: however the statements of two instance-creating calls interleave
\* (two save_instance calls, the inserts of backfill, the successor of
\* complete), no two stored instances share (habit_id, period_start): an
\* inserting statement stores one row under a key that was free, or stores
\* nothing and its call fails with IntegrityError; a save_instance whose
\* check finds the key taken stores nothing
C27_InsertIfAbsent ==
    /\ [](\A i, j \in instances :
              i.habit_id = j.habit_id /\ i.period_start = j.period_start
                  => i = j)
    /\ [][\A p \in Procs :
              /\ Inserting(p) /\ pc'[p] # pc[p]
                 => \/ \E i \in instances' :
                           /\ instances' = instances \cup {i}
                           /\ InstancesAt(instances, i.habit_id,
                                          i.period_start) = {}
                    \/ /\ instances' = instances
                       /\ \/ result'.status = "IntegrityError"
                             /\ pc'[p] = NoCall
                          \/ pc[p].at = "while" /\ pc'[p].at = "query"
              /\ pc[p].at = "check" /\ pc'[p] = NoCall
                 => instances' = instances /\ result'.status = "existing"
         ]_vars

\* a save_instance saw no row for its key and lost the insert to the other
\* program
C27_Witness ==
    /\ result.op = "save_instance"
    /\ result.status = "IntegrityError"
    /\ Cardinality(instances) >= 1

\* a backfill would add nothing: every stored habit has its instances up to
\* today's period
UpToDate ==
    \A order \in Orders(habits) :
        LET r == BackfillAll(order, instances, nextId, today)
        IN  r.status = "ok" /\ r.rows = instances

\* C28: in an invocation of list-all-habits, list-all-active-habits,
\* complete-task or show-longest-streak the backfill over all stored habits
\* is the first step, taken once, the body runs only after it has finished,
\* on a store that is up to date, and does not run when the backfill failed
C28_BackfillBeforeBody ==
    [][/\ result'.op \in Wrapped /\ result'.status = "backfilled"
          => /\ Idle
             /\ \E order \in Orders(habits) :
                    LET r == BackfillAll(order, instances, nextId, today)
                    IN  /\ r.status = "ok"
                        /\ instances' = r.rows /\ nextId' = r.idc
       /\ result'.op \in Wrapped /\ result'.status # "backfilled"
          => /\ result.op = result'.op /\ result.status = "backfilled"
             /\ UpToDate
       /\ result'.op = "ensure_up_to_date"
          => /\ Idle
             /\ result'.status # "ok"
             /\ \E order \in Orders(habits) :
                    BackfillAll(order, instances, nextId, today).status # "ok"
       /\ result.op = "ensure_up_to_date"
          => result'.op = "none" /\ UNCHANGED store
      ]_vars

\* complete-task has completed an instance of today that the backfill of its
\* invocation (or of an earlier one) had to create
C28_Witness ==
    /\ result.op = "complete-task" /\ result.status = "ok"
    /\ today = 1
    /\ \E h \in habits :
           /\ h.type = "daily"
           /\ \E i \in InstancesAt(instances, h.id, 0) : ~IsCompleted(i)
           /\ \E i \in InstancesAt(instances, h.id, 1) : IsCompleted(i)

\* the rows of habit h in S, and the dates they start at
RowsOf(S, h) == {i \in S : i.habit_id = h.id}
StartsOf(S, h) == {i.period_start : i \in RowsOf(S, h)}

\* C29: a complete on habit A leaves the rows and the current streak of
\* every other habit as they were, changes no row but the one of A at the
\* given date and adds no row but the one of A at the next period; a
\* backfill changes or removes no stored row and adds for a habit B only
\* rows at the dates B's own timeline calls for, whatever other habits are
\* stored, so that B's streak is what its own rows make it
C29_TimelinesAreIndependent ==
    /\ [][\A name \in Names, d \in CompleteDates :
              Idle /\ result'.op = "complete_task" /\ CompleteTask(name, d)
              => /\ \A b \in habits :
                        b.name # name
                        => /\ RowsOf(instances', b) = RowsOf(instances, b)
                           /\ CurrentStreakIn(instances', b, today)
                                  = CurrentStreakIn(instances, b, today)
                 /\ \A i \in instances \ instances' :
                        /\ \E a \in habits : a.name = name /\ a.id = i.habit_id
                        /\ i.period_start = d
                 /\ \A i \in instances' \ instances :
                        \E a \in habits :
                            /\ a.name = name /\ a.id = i.habit_id
                            /\ i.period_start \in {d, NextPeriodStart(a, d)}
                 /\ Cardinality(instances \ instances') <= 1
                 /\ Cardinality(instances' \ instances) <= 2
         ]_vars
    /\ [][Idle /\ result'.op = "backfill_instances"
          => /\ instances \subseteq instances'
             /\ \A b \in habits :
                    LET alone == BackfillHabit(b, RowsOf(instances, b),
                                               nextId, today)
                    IN  /\ StartsOf(instances', b) \subseteq StartsOf(alone.rows, b)
                        /\ result'.status = "ok"
                           => StartsOf(instances', b) = StartsOf(alone.rows, b)
                        /\ CurrentStreakIn(instances', b, today)
                               = CurrentStreakIn(RowsOf(instances', b), b, today)
         ]_vars

\* a task of one habit was completed on a day another habit has a Completed
\* and a Pending instance of its own
C29_Witness ==
    /\ result.op = "complete_task" /\ result.status = "ok"
    /\ \E a, b \in habits :
           /\ a # b
           /\ CompletedAt(a, today)
           /\ \E i \in RowsOf(instances, b) : ~IsCompleted(i)
           /\ Cardinality(RowsOf(instances, b)) >= 2

\* C30: when today's instance of a habit is Pending and the current streak
\* is k, the current streak is k + 1 right after a successful
\* complete(habit, today)
C30_CompletingTodayAddsOne ==
    [][\A name \in TimelineNames :
           Idle /\ result'.op = "complete_task" /\ result'.status = "ok"
           /\ CompleteTask(name, today)
           => \A h \in HabitsNamed(habits, name) :
                  PendingAt(h, today)
                  => CurrentStreakIn(instances', h, today)
                         = CurrentStreakIn(instances, h, today) + 1
      ]_vars

\* C31: the instances of a Weekly habit made by add-habit, backfill and
\* complete all start on the habit's weekday (Monday when none is set), and
\* each but the first starts exactly seven days after the one before it,
\* which is the date prev_period_start steps back to
C31_WeeklyInstancesAligned ==
    \A h \in habits :
        h.type = "weekly"
        => \A d \in PeriodStarts(h) :
               /\ Weekday(d) = RuleWeekday(h)
               /\ LET earlier == {e \in PeriodStarts(h) : e < d}
                  IN  earlier # {}
                      => /\ d - DaysPerWeek \in earlier
                         /\ \A e \in earlier : e <= d - DaysPerWeek
                         /\ PrevPeriodStart(h, d) \in earlier

\* C32: whatever add-habit (accepted or rejected for a duplicate name),
\* backfill, complete and delete-habit have run, every stored instance
\* refers to a stored habit: a rejected add-habit stores nothing, and the
\* rows a backfill or a complete adds belong to habits that are stored
C32_ReferentialIntegrity ==
    /\ [](\A i \in instances : \E h \in habits : h.id = i.habit_id)
    /\ [][/\ result'.op = "add_habit" /\ result'.status # "ok"
             => UNCHANGED store
          /\ result'.op \in {"backfill_instances", "complete_task"}
             => /\ habits' = habits
                /\ \A i \in instances' \ instances :
                       \E h \in habits : h.id = i.habit_id
          /\ result'.op = "delete_habit" /\ result'.status = "ok"
             => \A h \in habits \ habits' :
                    \A i \in instances' : i.habit_id # h.id
         ]_vars

\* a habit was deleted, its name was added again, and a backfill has filled
\* the timeline of the new habit
C32_Witness ==
    /\ result.op = "backfill_instances" /\ result.status = "ok"
    /\ \E h \in habits :
           /\ h.id >= 3
           /\ Cardinality(InstancesOf(instances, h.id)) >= 2
    /\ \A i \in instances : i.habit_id >= 3

=============================================================================
